---- MODULE Spec2Model ----
(***************************************************************************)
(* Order-tracking lookup service (manish-env/shopify-order-tracking).      *)
(*                                                                         *)
(* The repository holds three builds of the same service:                  *)
(*   "index"    src/src/index.js      Cloudflare worker, /track and /debug *)
(*   "part_000" src/unnamed/part_000  the worker with the button-control   *)
(*                                    routes and the UI hints              *)
(*   "part_003" src/unnamed/part_003  the express server                   *)
(* The pure functions (validators, tracking extraction, classifier, order  *)
(* selection) are modelled as operators and exercised by small harness     *)
(* specifications; the request handlers are modelled as a state machine.   *)
(***************************************************************************)
EXTENDS Integers, Sequences, FiniteSets, TLC

VARIABLES
    fn,        \* harness: the function under evaluation ("none" in Spec)
    arg,       \* harness: the drawn input
    ret,       \* harness: <<>> before the call, <<result>> after it
    build,     \* the build that is deployed
    clock,     \* Date.now(), in milliseconds
    requests,  \* rateLimiter.requests: client key -> timestamps
    arrivals,  \* the number of requests received so far
    reqs       \* the requests in flight, one record per slot

harness == <<fn, arg, ret>>

service == <<build, clock, requests, arrivals, reqs>>

vars == <<fn, arg, ret, build, clock, requests, arrivals, reqs>>

(***************************************************************************)
(* JavaScript values.  An optional value (null or a value) is a sequence   *)
(* of length at most one; a string is either a TLA+ string token (tracking *)
(* numbers) or a sequence of characters (order numbers, emails).  An array *)
(* that may be missing is a record  [nil, at].                             *)
(***************************************************************************)
None == <<>>

Some(x) == <<x>>

\* JS truthiness of a string-or-null value: null and "" are falsy.
Truthy(v) == v # None /\ v[1] # ""

NilArr == [nil |-> TRUE, at |-> <<>>]

Arr(s) == [nil |-> FALSE, at |-> s]

\* JS  `a && a.length > 0`
NonEmptyArr(a) == ~a.nil /\ Len(a.at) > 0

SeqsUpTo(S, n) == UNION {[1..k -> S] : k \in 0..n}

(***************************************************************************)
(* Bounds of the model.                                                    *)
(***************************************************************************)
MaxTrackingNumbers == 2

MaxLineItems == 2

MaxFulfillments == 2

MaxAgeHours == 49

MaxInputLength == 52

MaxOrders == 3

NumRequests == 1

MaxArrivals == 3

MaxWindows == 1

MaxUpstreamOrders == 2

MaxEmailLength == 5

MaxCalls == 4

MaxLookups == 3

NumRacers == 2

MaxQueryLength == 3

MaxNameLength == 3

MaxLimit == 2

TestWindowMs == 1000

TimeStep == 100

(***************************************************************************)
(* Program constants.                                                      *)
(***************************************************************************)
\* dayjs().diff(..., 'hour'): one hour in milliseconds
MsPerHour == 3600000

\* `hours < 48`
ProcessingHours == 48

\* `orderNumber.length <= 50`
MaxOrderNumberLength == 50

Builds == {"index", "part_000", "part_003"}

(***************************************************************************)
(* Tracking extraction: the first part of determineOrderStatus.            *)
(***************************************************************************)
\* mutant: the last fulfillment instead of the first
LastFulfillment(order) ==
    IF NonEmptyArr(order.fulfillments)
        THEN Some(order.fulfillments.at[Len(order.fulfillments.at)])
        ELSE None

\* const fulfillment = (order.fulfillments && order.fulfillments.length > 0)
\*                       ? order.fulfillments[0] : null;
FirstFulfillment(order) ==
    IF NonEmptyArr(order.fulfillments) THEN Some(order.fulfillments.at[1]) ELSE None

\* mutant: the list's last element instead of its first
TrackingFromFieldsLast(f) ==
    IF NonEmptyArr(f.tracking_numbers)
        THEN Some(f.tracking_numbers.at[Len(f.tracking_numbers.at)])
    ELSE IF Truthy(f.tracking_number) THEN f.tracking_number
    ELSE IF Truthy(f.trackingNumber) THEN f.trackingNumber
    ELSE None

\* mutant: the camelCase field asked before the singular one
TrackingFromFieldsCamelFirst(f) ==
    IF NonEmptyArr(f.tracking_numbers) THEN Some(f.tracking_numbers.at[1])
    ELSE IF Truthy(f.trackingNumber) THEN f.trackingNumber
    ELSE IF Truthy(f.tracking_number) THEN f.tracking_number
    ELSE None

\* the if / else-if / else-if chain over tracking_numbers, tracking_number,
\* trackingNumber; the list's first element is taken as it is
TrackingFromFields(f) ==
    IF NonEmptyArr(f.tracking_numbers) THEN Some(f.tracking_numbers.at[1])
    ELSE IF Truthy(f.tracking_number) THEN f.tracking_number
    ELSE IF Truthy(f.trackingNumber) THEN f.trackingNumber
    ELSE None

\* for (const item of fulfillment.line_items) if (item.tracking_number) {...; break}
RECURSIVE TrackingFromLineItems(_, _)
TrackingFromLineItems(items, found) ==
    IF items = <<>> THEN found
    ELSE IF Truthy(Head(items).tracking_number) THEN Head(items).tracking_number
    ELSE TrackingFromLineItems(Tail(items), found)

\* the value of the local `trackingNumber` at "Final tracking number found"
ExtractTracking(order) ==
    LET fulfillment == FirstFulfillment(order) IN
    IF fulfillment = None THEN None
    ELSE LET f == fulfillment[1]
             t == TrackingFromFields(f)
         IN  IF ~Truthy(t) /\ ~f.line_items.nil
                 THEN TrackingFromLineItems(f.line_items.at, t)
                 ELSE t

(***************************************************************************)
(* Status classification.                                                  *)
(***************************************************************************)
\* mutant: the difference rounded to the nearest hour
HoursDiffRounded(a, b) ==
    IF a >= b THEN (a - b + MsPerHour \div 2) \div MsPerHour
    ELSE 0 - ((b - a + MsPerHour \div 2) \div MsPerHour)

\* dayjs(a).diff(dayjs(b), 'hour'): the millisecond difference over one hour,
\* truncated toward zero
HoursDiff(a, b) ==
    IF a >= b THEN (a - b) \div MsPerHour ELSE 0 - ((b - a) \div MsPerHour)

\* the elapsed-time rules, common to the three builds (without UI hints)
ByAge(order, t) ==
    IF HoursDiff(t, order.created_at) < ProcessingHours
        THEN [status |-> "Order Processing", trackingNumber |-> None,
              deliveredAt |-> None]
        ELSE [status |-> "In Transit", trackingNumber |-> None,
              deliveredAt |-> None]

\* mutant: the tracking rule tested before the delivery marker
determineOrderStatusTrackingFirst(order, t) ==
    LET trackingNumber == ExtractTracking(order) IN
    IF Truthy(trackingNumber)
        THEN [status |-> "In Transit", trackingNumber |-> trackingNumber,
              deliveredAt |-> None]
    ELSE IF order.closed_at # None
        THEN [status |-> "Order Delivered", trackingNumber |-> trackingNumber,
              deliveredAt |-> order.closed_at]
    ELSE ByAge(order, t)

\* mutant: the elapsed-time rule tested before the tracking rule
determineOrderStatusAgeFirst(order, t) ==
    LET trackingNumber == ExtractTracking(order) IN
    IF order.closed_at # None
        THEN [status |-> "Order Delivered", trackingNumber |-> trackingNumber,
              deliveredAt |-> order.closed_at]
    ELSE IF HoursDiff(t, order.created_at) < ProcessingHours
        THEN [status |-> "Order Processing", trackingNumber |-> None,
              deliveredAt |-> None]
    ELSE [status |-> "In Transit", trackingNumber |-> trackingNumber,
          deliveredAt |-> None]

\* src/src/index.js
determineOrderStatus(order, t) ==
    LET trackingNumber == ExtractTracking(order) IN
    IF order.closed_at # None
        THEN [status |-> "Order Delivered", trackingNumber |-> trackingNumber,
              deliveredAt |-> order.closed_at]
    ELSE IF Truthy(trackingNumber)
        THEN [status |-> "In Transit", trackingNumber |-> trackingNumber,
              deliveredAt |-> None]
    ELSE ByAge(order, t)

\* mutant of the build with the button fields: the tracking rule tested
\* before the delivery marker
determineOrderStatusButtonsTrackingFirst(order, t) ==
    LET trackingNumber == ExtractTracking(order) IN
    IF Truthy(trackingNumber)
        THEN [status |-> "In Transit", trackingNumber |-> trackingNumber,
              deliveredAt |-> None, buttonsDisabled |-> TRUE,
              disabledReason |-> Some("Order is in transit")]
    ELSE IF order.closed_at # None
        THEN [status |-> "Order Delivered", trackingNumber |-> trackingNumber,
              deliveredAt |-> order.closed_at, buttonsDisabled |-> TRUE,
              disabledReason |-> Some("Order has been delivered")]
    ELSE IF HoursDiff(t, order.created_at) < ProcessingHours
        THEN [status |-> "Order Processing", trackingNumber |-> None,
              deliveredAt |-> None, buttonsDisabled |-> FALSE,
              disabledReason |-> None]
    ELSE [status |-> "In Transit", trackingNumber |-> None,
          deliveredAt |-> None, buttonsDisabled |-> TRUE,
          disabledReason |-> Some("Order is in transit (48+ hours)")]

\* src/unnamed/part_000: the same rules, each result with the UI hints
determineOrderStatusButtons(order, t) ==
    LET trackingNumber == ExtractTracking(order) IN
    IF order.closed_at # None
        THEN [status |-> "Order Delivered", trackingNumber |-> trackingNumber,
              deliveredAt |-> order.closed_at, buttonsDisabled |-> TRUE,
              disabledReason |-> Some("Order has been delivered")]
    ELSE IF Truthy(trackingNumber)
        THEN [status |-> "In Transit", trackingNumber |-> trackingNumber,
              deliveredAt |-> None, buttonsDisabled |-> TRUE,
              disabledReason |-> Some("Order is in transit")]
    ELSE IF HoursDiff(t, order.created_at) < ProcessingHours
        THEN [status |-> "Order Processing", trackingNumber |-> None,
              deliveredAt |-> None, buttonsDisabled |-> FALSE,
              disabledReason |-> None]
    ELSE [status |-> "In Transit", trackingNumber |-> None,
          deliveredAt |-> None, buttonsDisabled |-> TRUE,
          disabledReason |-> Some("Order is in transit (48+ hours)")]

\* src/unnamed/part_003: closed_at is tested before the tracking number is
\* extracted, and a delivered order is returned with trackingNumber null
determineOrderStatusExpress(order, t) ==
    IF order.closed_at # None
        THEN [status |-> "Order Delivered", trackingNumber |-> None,
              deliveredAt |-> order.closed_at]
    ELSE LET trackingNumber == ExtractTracking(order) IN
         IF Truthy(trackingNumber)
             THEN [status |-> "In Transit", trackingNumber |-> trackingNumber,
                   deliveredAt |-> None]
         ELSE ByAge(order, t)

\* the classifier of build b
Classifier(b, order, t) ==
    CASE b = "index" -> determineOrderStatus(order, t)
      [] b = "part_000" -> determineOrderStatusButtons(order, t)
      [] b = "part_003" -> determineOrderStatusExpress(order, t)

(***************************************************************************)
(* Input validation.  A string is a sequence of one-character strings.     *)
(***************************************************************************)
LowerLetters ==
    {"a", "b", "c", "d", "e", "f", "g", "h", "i", "j", "k", "l", "m",
     "n", "o", "p", "q", "r", "s", "t", "u", "v", "w", "x", "y", "z"}

UpperLetters ==
    {"A", "B", "C", "D", "E", "F", "G", "H", "I", "J", "K", "L", "M",
     "N", "O", "P", "Q", "R", "S", "T", "U", "V", "W", "X", "Y", "Z"}

Digits == {"0", "1", "2", "3", "4", "5", "6", "7", "8", "9"}

\* the character class [a-zA-Z0-9\-_#]
OrderNumberClass == LowerLetters \cup UpperLetters \cup Digits \cup {"-", "_", "#"}

\* mutant: the class of the code's comment (alphanumerics, hyphens and
\* underscores), without '#'
OrderNumberRegexNoHash(s) ==
    /\ Len(s) >= 1
    /\ \A i \in 1..Len(s) :
          s[i] \in LowerLetters \cup UpperLetters \cup Digits \cup {"-", "_"}

\* /^[a-zA-Z0-9\-_#]+$/.test(s): one or more characters of the class, and
\* nothing else before the end of the input
OrderNumberRegex(s) ==
    /\ Len(s) >= 1
    /\ \A i \in 1..Len(s) : s[i] \in OrderNumberClass

\* mutant: the upper length limit exclusive
validateOrderNumberExclusive(s) ==
    OrderNumberRegex(s) /\ Len(s) >= 1 /\ Len(s) < MaxOrderNumberLength

validateOrderNumber(s) ==
    OrderNumberRegex(s) /\ Len(s) >= 1 /\ Len(s) <= MaxOrderNumberLength

(***************************************************************************)
(* Order selection: the part of getOrder after the upstream answer.        *)
(***************************************************************************)
\* JS truthiness of a string-or-null value held as a character sequence
TruthyStr(v) == v # None /\ v[1] # <<>>

CaseMap == [A |-> "a", B |-> "b", C |-> "c", X |-> "x", Y |-> "y", Z |-> "z"]

\* String.prototype.toLowerCase, on the letters the model uses
toLowerCase(s) ==
    [i \in 1..Len(s) |-> IF s[i] \in DOMAIN CaseMap THEN CaseMap[s[i]] ELSE s[i]]

\* mutant: the emails compared as they are
EmailMatchesExact(o, email) == TruthyStr(o.email) /\ o.email[1] = email

\* o => o.email && o.email.toLowerCase() === email.toLowerCase()
EmailMatches(o, email) ==
    TruthyStr(o.email) /\ toLowerCase(o.email[1]) = toLowerCase(email)

\* orders.find(...): the first element that matches, or undefined
RECURSIVE Find(_, _)
Find(orders, email) ==
    IF orders = <<>> THEN None
    ELSE IF EmailMatches(Head(orders), email) THEN Some(Head(orders))
    ELSE Find(Tail(orders), email)

\* mutant: ascending by creation time
CompareCreatedAscending(a, b) == a.created_at - b.created_at

\* (a, b) => new Date(b.created_at) - new Date(a.created_at)
CompareCreated(a, b) == b.created_at - a.created_at

\* mutant: an element goes before the elements it ties with
RECURSIVE InsertBeforeTies(_, _)
InsertBeforeTies(sorted, o) ==
    IF sorted = <<>> THEN <<o>>
    ELSE IF CompareCreated(Head(sorted), o) < 0
        THEN <<Head(sorted)>> \o InsertBeforeTies(Tail(sorted), o)
        ELSE <<o>> \o sorted

\* Array.prototype.sort is stable: an element goes after every element the
\* comparator does not put after it
RECURSIVE Insert(_, _)
Insert(sorted, o) ==
    IF sorted = <<>> THEN <<o>>
    ELSE IF CompareCreated(Head(sorted), o) <= 0
        THEN <<Head(sorted)>> \o Insert(Tail(sorted), o)
        ELSE <<o>> \o sorted

RECURSIVE Sort(_)
Sort(orders) ==
    IF orders = <<>> THEN <<>>
    ELSE Insert(Sort(SubSeq(orders, 1, Len(orders) - 1)), orders[Len(orders)])

\* mutant: no order is selected when no email matches
SelectOrderStrict(orderNumber, email, data) ==
    LET orders == IF data.nil THEN <<>> ELSE data.at IN
    IF Len(orders) = 0 THEN None
    ELSE IF TruthyStr(orderNumber) /\ TruthyStr(email)
        THEN Find(orders, email[1])
    ELSE Some(Sort(orders)[1])

\* const orders = data.orders || []; ... the selection of one order, null
\* when there is none
SelectOrder(orderNumber, email, data) ==
    LET orders == IF data.nil THEN <<>> ELSE data.at IN
    IF Len(orders) = 0 THEN None
    ELSE IF TruthyStr(orderNumber) /\ TruthyStr(email)
        THEN LET order == Find(orders, email[1]) IN
             IF order # None THEN order ELSE Some(orders[1])
    ELSE Some(Sort(orders)[1])

(***************************************************************************)
(* The request throttle.                                                   *)
(***************************************************************************)
\* isAllowed(ip, maxRequests = 100, windowMs = 15 * 60 * 1000)
DefaultMaxRequests == 100

DefaultWindowMs == 15 * 60 * 1000

\* mutant: no timestamp is ever dropped
ValidRequestsUnpruned(map, ip, t, windowMs) ==
    IF ip \in DOMAIN map THEN map[ip] ELSE <<>>

\* userRequests.filter(time => time > windowStart), an unknown ip having []
ValidRequests(map, ip, t, windowMs) ==
    SelectSeq(IF ip \in DOMAIN map THEN map[ip] ELSE <<>>,
              LAMBDA time : time > t - windowMs)

\* mutant: the timestamps of every client are counted
isAllowedGlobal(map, ip, t, maxRequests, windowMs) ==
    Cardinality(UNION {{<<c, i>> : i \in {n \in 1..Len(map[c]) : map[c][n] > t - windowMs}} :
                       c \in DOMAIN map}) < maxRequests

\* RateLimiter.isAllowed: the value returned
isAllowed(map, ip, t, maxRequests, windowMs) ==
    Len(ValidRequests(map, ip, t, windowMs)) < maxRequests

\* mutant: `now` is pushed whatever the outcome
requestsAfterRecordsRejected(map, ip, t, maxRequests, windowMs) ==
    (ip :> Append(ValidRequests(map, ip, t, windowMs), t)) @@ map

\* RateLimiter.isAllowed: this.requests after the call (the pruned list is
\* stored, and `now` pushed onto it when the call is admitted)
requestsAfter(map, ip, t, maxRequests, windowMs) ==
    LET validRequests == ValidRequests(map, ip, t, windowMs) IN
    (ip :> IF Len(validRequests) >= maxRequests
               THEN validRequests
               ELSE Append(validRequests, t)) @@ map

(***************************************************************************)
(* validateEmail: /^[^\s@]+@[^\s@]+\.[^\s@]+$/                             *)
(***************************************************************************)
Whitespace == {" ", "\t", "\n", "\r", "\f"}

\* mutant: the '.' anywhere after the '@'
validateEmailAnyDot(s) ==
    \E a \in 2..Len(s) :
        /\ s[a] = "@"
        /\ \A i \in 1..Len(s) : s[i] \notin Whitespace /\ (s[i] = "@" => i = a)
        /\ \E d \in (a + 1)..Len(s) : s[d] = "."

\* one '@' with a non-empty local part before it; after it a '.' that is
\* neither the first nor the last character; no whitespace and no other '@'
validateEmail(s) ==
    \E a \in 2..Len(s) :
        /\ s[a] = "@"
        /\ \A i \in 1..Len(s) : s[i] \notin Whitespace /\ (s[i] = "@" => i = a)
        /\ \E d \in (a + 2)..(Len(s) - 1) : s[d] = "."

(***************************************************************************)
(* getOrder up to the upstream call.                                       *)
(***************************************************************************)
\* orderNumber.startsWith('#') ? orderNumber : `#${orderNumber}`
DisplayName(orderNumber) ==
    IF Len(orderNumber) > 0 /\ orderNumber[1] = "#" THEN orderNumber
    ELSE <<"#">> \o orderNumber

\* mutant: the email selector whenever an email is given
getOrderUrlEmailFirst(orderNumber, email) ==
    IF TruthyStr(email)
        THEN Some([param |-> "email", value |-> email[1]])
    ELSE IF TruthyStr(orderNumber)
        THEN Some([param |-> "name", value |-> DisplayName(orderNumber[1])])
    ELSE None

\* the selector of the upstream query (its value as the upstream decodes
\* it), or null where getOrder throws 'Either orderNumber or email must be
\* provided'
getOrderUrl(orderNumber, email) ==
    IF TruthyStr(orderNumber) /\ TruthyStr(email)
        THEN Some([param |-> "name", value |-> DisplayName(orderNumber[1])])
    ELSE IF TruthyStr(orderNumber)
        THEN Some([param |-> "name", value |-> DisplayName(orderNumber[1])])
    ELSE IF TruthyStr(email)
        THEN Some([param |-> "email", value |-> email[1]])
    ELSE None

(***************************************************************************)
(* Responses.  A message is a sequence of text pieces.                     *)
(***************************************************************************)
createResponse(data) == [status |-> 200, body |-> data]

createErrorResponse(error, message, code, status) ==
    [status |-> status, body |-> [error |-> error, message |-> message, code |-> code]]

\* new Error(`Shopify API error: ${response.status}`), the status in digits
ShopifyError(status) == <<"Shopify API error: ">> \o status

MissingCriteriaError == <<"Either orderNumber or email must be provided">>

\* String.prototype.includes, on text pieces
Includes(message, part) ==
    \E i \in 1..Len(message) :
        /\ i + Len(part) - 1 <= Len(message)
        /\ SubSeq(message, i, i + Len(part) - 1) = part

InternalError ==
    createErrorResponse("Internal server error",
        <<"An unexpected error occurred while processing your request">>,
        "INTERNAL_ERROR", 500)

\* the catch block of handleTrack
TrackCatch(message) ==
    IF Includes(message, <<"Shopify API error: ", "4", "0", "1">>)
        THEN createErrorResponse("Authentication failed",
                 <<"Shopify API authentication error">>, "SHOPIFY_AUTH_ERROR", 500)
    ELSE IF Includes(message, <<"Shopify API error: ", "4", "0", "3">>)
        THEN createErrorResponse("Access denied",
                 <<"Shopify API access denied">>, "SHOPIFY_ACCESS_DENIED", 500)
    ELSE IF Includes(message, <<"Shopify API error: ", "5">>)
        THEN createErrorResponse("Service unavailable",
                 <<"Shopify API is currently unavailable">>,
                 "SHOPIFY_SERVICE_UNAVAILABLE", 503)
    ELSE InternalError

\* the catch block of handleDebug: the error's own message is sent
DebugCatch(message) ==
    createErrorResponse("Internal server error", message, "INTERNAL_ERROR", 500)

ButtonRoutes == {"/button-control", "/shopify-button-control", "/inject"}

\* the catch block of the handler of a route
Catch(route, message) ==
    IF route = "/track" THEN TrackCatch(message)
    ELSE IF route = "/debug" THEN DebugCatch(message)
    ELSE InternalError

RateLimited ==
    createErrorResponse("Too many requests from this IP, please try again later.",
        <<"Rate limit exceeded">>, "RATE_LIMIT_EXCEEDED", 429)

MissingFields ==
    createErrorResponse("Missing required fields",
        <<"Please provide either order number or email address">>,
        "MISSING_FIELDS", 400)

InvalidOrderNumber ==
    createErrorResponse("Invalid order number",
        <<"Order number must be 1-50 characters and contain only letters, numbers, hyphens, underscores, and #">>,
        "INVALID_ORDER_NUMBER", 400)

InvalidEmail ==
    createErrorResponse("Invalid email address",
        <<"Please provide a valid email address">>, "INVALID_EMAIL", 400)

EndpointNotFound(route) ==
    createErrorResponse("Endpoint not found",
        <<"The requested endpoint ", route, " does not exist">>,
        "ENDPOINT_NOT_FOUND", 404)

\* searchCriteria.join(' and ')
SearchCriteria(orderNumber, email) ==
    IF TruthyStr(orderNumber) /\ TruthyStr(email) THEN <<"order number", " and ", "email">>
    ELSE IF TruthyStr(orderNumber) THEN <<"order number">>
    ELSE IF TruthyStr(email) THEN <<"email">>
    ELSE <<>>

\* a handler that reports a lookup without a result as a failure
OrderNotFoundInternal(route, orderNumber, email) == InternalError

\* the 404 of a lookup that found no order
OrderNotFound(route, orderNumber, email) ==
    createErrorResponse("Order not found",
        IF route = "/debug"
            THEN <<"No order found with order number: ">> \o orderNumber[1]
            ELSE <<"No order found with the provided ">> \o SearchCriteria(orderNumber, email),
        "ORDER_NOT_FOUND", 404)

\* String.prototype.replace('#', ''): the first '#' is removed
RECURSIVE RemoveFirstMarker(_)
RemoveFirstMarker(name) ==
    IF name = <<>> THEN <<>>
    ELSE IF Head(name) = "#" THEN Tail(name)
    ELSE <<Head(name)>> \o RemoveFirstMarker(Tail(name))

\* the success body of handleTrack in src/src/index.js
TrackData(order, statusInfo, t) ==
    [orderNumber |-> RemoveFirstMarker(order.name),
     status |-> statusInfo.status,
     trackingNumber |-> statusInfo.trackingNumber,
     orderDate |-> order.created_at,
     lastUpdated |-> t,
     deliveredAt |-> statusInfo.deliveredAt]

\* the success body of handleTrack in src/unnamed/part_000
TrackDataButtons(order, statusInfo, t) ==
    [orderNumber |-> RemoveFirstMarker(order.name),
     status |-> statusInfo.status,
     trackingNumber |-> statusInfo.trackingNumber,
     orderDate |-> order.created_at,
     lastUpdated |-> t,
     deliveredAt |-> statusInfo.deliveredAt,
     buttonsDisabled |-> statusInfo.buttonsDisabled,
     disabledReason |-> statusInfo.disabledReason]

\* the response of a lookup that found `order`
Found(b, route, order, t) ==
    IF route = "/debug"
        THEN createResponse([success |-> TRUE, order |-> order])
    ELSE IF route = "/track"
        THEN createResponse(
                 [success |-> TRUE,
                  data |-> IF b = "part_000"
                               THEN TrackDataButtons(order, Classifier(b, order, t), t)
                               ELSE TrackData(order, Classifier(b, order, t), t)])
    ELSE [status |-> 200,
          body |-> [page |-> route,
                    orderNumber |-> RemoveFirstMarker(order.name),
                    statusInfo |-> Classifier(b, order, t)]]

(***************************************************************************)
(* Inputs of the harness specifications.                                   *)
(***************************************************************************)
TrackingElems == {"", "T1", "T2"}

OptTracking(x) == {None, Some(""), Some(x)}

LineItems == [tracking_number : {None, Some(""), Some("L1"), Some("L2")}]

OptArrs(S, n) == {NilArr} \cup {Arr(s) : s \in SeqsUpTo(S, n)}

\* every shape of the first fulfillment
FulfillmentShapes ==
    [tracking_numbers : OptArrs(TrackingElems, MaxTrackingNumbers),
     tracking_number : OptTracking("S1"),
     trackingNumber : OptTracking("C1"),
     line_items : OptArrs(LineItems, MaxLineItems)]

Fulfillment(list, single, camel, items) ==
    [tracking_numbers |-> list, tracking_number |-> single,
     trackingNumber |-> camel, line_items |-> items]

\* the fulfillments after the first: one without and one with tracking
LaterFulfillments ==
    {Fulfillment(Arr(<<>>), None, None, NilArr),
     Fulfillment(Arr(<<"T9">>), Some("S9"), None, Arr(<<[tracking_number |-> Some("L9")]>>))}

FulfillmentLists ==
    {NilArr, Arr(<<>>)} \cup
    {Arr(<<f>> \o rest) : f \in FulfillmentShapes,
                          rest \in SeqsUpTo(LaterFulfillments, MaxFulfillments - 1)}

\* a display name and an email as character sequences
Name1001 == <<"#", "1", "0", "0", "1">>

EmailA == <<"a", "@", "x", ".", "c">>

CreatedAt == 2 * MsPerHour

ClosedAt == 5 * MsPerHour

Order(id, name, email, created, closed, fulfillments) ==
    [id |-> id, name |-> name, email |-> email, created_at |-> created,
     closed_at |-> closed, fulfillments |-> fulfillments]

\* the harness specifications leave the service as constructed, with no
\* request
ServiceIdle ==
    /\ build = "index"
    /\ clock = 0
    /\ requests = <<>>
    /\ arrivals = 0
    /\ reqs = <<>>

(***************************************************************************)
(* SpecExtract: the tracking extraction on every fulfillment shape.        *)
(***************************************************************************)
InitExtract ==
    /\ ServiceIdle
    /\ fn = "extract"
    /\ arg \in {Order(1, Name1001, Some(EmailA), CreatedAt, None, fs) :
                    fs \in FulfillmentLists}
    /\ ret = None

Extract ==
    /\ fn = "extract"
    /\ ret = None
    /\ ret' = Some(ExtractTracking(arg))
    /\ UNCHANGED <<fn, arg, service>>

SpecExtract == InitExtract /\ [][Extract]_vars

(***************************************************************************)
(* SpecClassify: the classifier of each build, on orders of every age      *)
(* around the 48 hour threshold.                                           *)
(***************************************************************************)
\* one fulfillment list per outcome of the extraction
ClassifyFulfillments ==
    {NilArr, Arr(<<>>),
     Arr(<<Fulfillment(NilArr, None, None, NilArr)>>),
     Arr(<<Fulfillment(Arr(<<"T1", "T2">>), Some("S1"), None, NilArr)>>),
     Arr(<<Fulfillment(Arr(<<"">>), Some("S1"), None, Arr(<<>>))>>),
     Arr(<<Fulfillment(Arr(<<"">>), None, None,
                       Arr(<<[tracking_number |-> Some("L1")]>>))>>),
     Arr(<<Fulfillment(Arr(<<>>), Some("S1"), Some("C1"), NilArr)>>),
     Arr(<<Fulfillment(NilArr, Some(""), Some("C1"), NilArr)>>),
     Arr(<<Fulfillment(NilArr, None, None,
                       Arr(<<[tracking_number |-> None],
                             [tracking_number |-> Some("L1")]>>))>>)}

\* whole hours, one millisecond and one minute short of the next hour; and
\* an order dated after `now` (clock skew)
Ages ==
    {h * MsPerHour + d : h \in 0..MaxAgeHours,
                         d \in {0, MsPerHour - MsPerHour \div 60, MsPerHour - 1}}
    \cup {0 - 1, 0 - MsPerHour, 0 - 2 * MsPerHour}

InitClassify ==
    /\ ServiceIdle
    /\ fn = "classify"
    /\ arg \in [build : Builds,
                 order : {Order(1, Name1001, Some(EmailA), CreatedAt, closed, fs) :
                             closed \in {None, Some(ClosedAt)},
                             fs \in ClassifyFulfillments},
                 now : {CreatedAt + a : a \in Ages}]
    /\ ret = None

Classify ==
    /\ fn = "classify"
    /\ ret = None
    /\ ret' = Some(Classifier(arg.build, arg.order, arg.now))
    /\ UNCHANGED <<fn, arg, service>>

SpecClassify == InitClassify /\ [][Classify]_vars

(***************************************************************************)
(* SpecValidate: validateOrderNumber on strings of every length up to      *)
(* MaxInputLength, made of one character repeated and one other character  *)
(* at the start, in the middle or at the end.                              *)
(***************************************************************************)
TestChars ==
    {"a", "z", "A", "Z", "0", "9", "-", "_", "#",
     " ", "@", ".", "+", "/", ":", "[", "^", "{", "\n"}

Shaped(n, p, base, odd) == [i \in 1..n |-> IF i = p THEN odd ELSE base]

OrderNumberInputs ==
    UNION {{Shaped(n, p, base, odd) : p \in {1, (n + 1) \div 2, n},
                                      base \in {"a", "#"}, odd \in TestChars} :
           n \in 0..MaxInputLength}

InitValidate ==
    /\ ServiceIdle
    /\ fn = "validateOrderNumber"
    /\ arg \in OrderNumberInputs
    /\ ret = None

ValidateOrderNumber ==
    /\ fn = "validateOrderNumber"
    /\ ret = None
    /\ ret' = Some(validateOrderNumber(arg))
    /\ UNCHANGED <<fn, arg, service>>

SpecValidate == InitValidate /\ [][ValidateOrderNumber]_vars

(***************************************************************************)
(* SpecEmail: validateEmail on every string of up to MaxEmailLength        *)
(* characters over a letter, '@', '.' and a space.                         *)
(***************************************************************************)
EmailChars == {"a", "@", ".", " "}

EmailInputs == SeqsUpTo(EmailChars, MaxEmailLength)

InitEmail ==
    /\ ServiceIdle
    /\ fn = "validateEmail"
    /\ arg \in EmailInputs
    /\ ret = None

ValidateEmail ==
    /\ fn = "validateEmail"
    /\ ret = None
    /\ ret' = Some(validateEmail(arg))
    /\ UNCHANGED <<fn, arg, service>>

SpecEmail == InitEmail /\ [][ValidateEmail]_vars

(***************************************************************************)
(* SpecSelect: the order selection on every upstream list of up to         *)
(* MaxOrders orders.                                                       *)
(***************************************************************************)
Number1001 == <<"1", "0", "0", "1">>

EmailAUpper == <<"A", "@", "X", ".", "C">>

EmailB == <<"b", "@", "x", ".", "c">>

CandidateEmails == {None, Some(EmailA), Some(EmailAUpper), Some(EmailB)}

\* the i-th order of an upstream answer
Candidate(i, email, created) == Order(i, Name1001, email, created, None, Arr(<<>>))

OrderLists ==
    UNION {{[i \in 1..n |-> Candidate(i, e[i], c[i])] :
                e \in [1..n -> CandidateEmails],
                c \in [1..n -> {MsPerHour, 2 * MsPerHour}]} : n \in 0..MaxOrders}

\* the criteria getOrder goes upstream with: at least one is non-empty
Criteria ==
    {q \in [orderNumber : {None, Some(Number1001)},
            email : {None, Some(<<>>), Some(EmailA), Some(EmailAUpper)}] :
        TruthyStr(q.orderNumber) \/ TruthyStr(q.email)}

InitSelect ==
    /\ ServiceIdle
    /\ fn = "select"
    /\ arg \in [query : Criteria, data : {NilArr} \cup {Arr(l) : l \in OrderLists}]
    /\ ret = None

Select ==
    /\ fn = "select"
    /\ ret = None
    /\ ret' = Some(SelectOrder(arg.query.orderNumber, arg.query.email, arg.data))
    /\ UNCHANGED <<fn, arg, service>>

SpecSelect == InitSelect /\ [][Select]_vars

(***************************************************************************)
(* Spec: the worker's request handlers.  A request occupies a slot from    *)
(* its arrival to its response; a handler runs from one await to the next  *)
(* in one step.  pc is the await the request is suspended at:              *)
(*   "body"   await request.json()                                         *)
(*   "fetch"  await fetch(url, ...)       in getOrder                      *)
(*   "json"   await response.json()       in getOrder                      *)
(*   "done"   the response has been returned                               *)
(***************************************************************************)
WorkerBuilds == {"index", "part_000"}

\* the routes the fetch handler of build b dispatches
Routes(b) ==
    IF b = "part_000" THEN {"/track", "/debug"} \cup ButtonRoutes
    ELSE {"/track", "/debug"}

Paths == {"/track", "/debug"} \cup ButtonRoutes \cup {"/other"}

Slots == 1..NumRequests

StartClock == 100 * MsPerHour

\* the clock readings of the model: the start, one millisecond later, and
\* the same after each whole throttle window
ClockValues == {StartClock + k * DefaultWindowMs + j : k \in 0..MaxWindows, j \in 0..1}

NewRequest ==
    [pc |-> "idle", route |-> "", client |-> None, admitted |-> FALSE,
     orderNumber |-> None, email |-> None, url |-> None, fetches |-> 0,
     answer |-> "none", upstreamStatus |-> None, classified |-> FALSE,
     response |-> None]

IpCloudflare == "203.0.113.7"

IpForwarded == "198.51.100.9"

\* mutant: a request without the two headers gets a key of its own
clientIPNoFallback(cf, xff) ==
    IF Truthy(cf) THEN cf[1] ELSE IF Truthy(xff) THEN xff[1] ELSE ""

\* request.headers.get('CF-Connecting-IP') ||
\*     request.headers.get('X-Forwarded-For') || 'unknown'
clientIP(cf, xff) ==
    IF Truthy(cf) THEN cf[1] ELSE IF Truthy(xff) THEN xff[1] ELSE "unknown"

Repeat(x, n) == [i \in 1..n |-> x]

\* the throttle as constructed, or in the middle of a busy millisecond of
\* one client: one request short of the limit
StartRequests ==
    {<<>>} \cup {ip :> Repeat(StartClock, DefaultMaxRequests - 1) :
                    ip \in {IpCloudflare, "unknown"}}

\* the orders of the upstream store
Shipped == Fulfillment(Arr(<<"T1">>), None, None, NilArr)

PipelineOrders ==
    {Order(1, Name1001, Some(EmailA), StartClock - 3 * MsPerHour, None, Arr(<<>>)),
     Order(2, Name1001, Some(EmailAUpper), StartClock - 3 * MsPerHour, None,
           Arr(<<Shipped>>)),
     Order(3, Name1001, Some(EmailB), StartClock - 72 * MsPerHour,
           Some(StartClock - MsPerHour), Arr(<<Shipped>>)),
     Order(4, Name1001, None, StartClock + DefaultWindowMs - ProcessingHours * MsPerHour,
           None, NilArr)}

\* what response.json() of a 2xx answer yields: an object whose orders
\* array is absent, empty or holds orders
UpstreamData == {NilArr} \cup {Arr(l) : l \in SeqsUpTo(PipelineOrders, MaxUpstreamOrders)}

\* the status codes of the answers that are not ok
FailStatuses ==
    {<<"4", "0", "1">>, <<"4", "0", "3">>, <<"4", "0", "4">>, <<"4", "2", "9">>,
     <<"5", "0", "0">>, <<"5", "0", "3">>}

\* the fields a JSON body may carry
BodyOrderNumbers == {None, Some(Number1001), Some(Name1001), Some(<<"1", " ", "1">>)}

BodyEmails == {None, Some(EmailAUpper), Some(<<"a", "@", "x">>)}

Init ==
    /\ fn = "none"
    /\ arg = None
    /\ ret = None
    /\ build \in WorkerBuilds
    /\ clock = StartClock
    /\ requests \in StartRequests
    /\ arrivals = 0
    /\ reqs = [r \in Slots |-> NewRequest]

Done(req, response) == [req EXCEPT !.pc = "done", !.response = Some(response)]

\* the call of getOrder up to `await fetch`: the url is built and the
\* request sent, or the missing criteria are thrown to the handler
CallGetOrder(req) ==
    LET url == getOrderUrl(req.orderNumber, req.email) IN
    IF url = None THEN Done(req, Catch(req.route, MissingCriteriaError))
    ELSE [req EXCEPT !.pc = "fetch", !.url = url, !.fetches = @ + 1]

\* mutant: the handler is suspended between the count check and the push
ArriveTrackCheckThenPush(r) ==
    \/ /\ reqs[r].pc = "idle"
       /\ arrivals < MaxArrivals
       /\ \E cf \in {None, Some(IpCloudflare)}, xff \in {None, Some(IpForwarded)} :
           LET ip == clientIP(cf, xff)
               req == [NewRequest EXCEPT !.route = "/track", !.client = Some(ip)]
           IN  /\ requests' = (ip :> ValidRequests(requests, ip, clock, DefaultWindowMs))
                                  @@ requests
               /\ reqs' = [reqs EXCEPT ![r] =
                      IF ~isAllowed(requests, ip, clock, DefaultMaxRequests, DefaultWindowMs)
                          THEN Done(req, RateLimited)
                          ELSE [req EXCEPT !.pc = "check", !.admitted = TRUE]]
       /\ arrivals' = arrivals + 1
       /\ UNCHANGED <<harness, build, clock>>
    \/ /\ reqs[r].pc = "check"
       /\ requests' = (reqs[r].client[1] :> Append(requests[reqs[r].client[1]], clock))
                          @@ requests
       /\ reqs' = [reqs EXCEPT ![r] = [@ EXCEPT !.pc = "body"]]
       /\ UNCHANGED <<harness, build, clock, arrivals>>

\* POST /track: handleTrack to `await request.json()`
ArriveTrack(r) ==
    /\ reqs[r].pc = "idle"
    /\ arrivals < MaxArrivals
    /\ \E cf \in {None, Some(IpCloudflare)}, xff \in {None, Some(IpForwarded)} :
        LET ip == clientIP(cf, xff)
            req == [NewRequest EXCEPT !.route = "/track", !.client = Some(ip)]
        IN  /\ requests' = requestsAfter(requests, ip, clock,
                                         DefaultMaxRequests, DefaultWindowMs)
            /\ reqs' = [reqs EXCEPT ![r] =
                   IF ~isAllowed(requests, ip, clock, DefaultMaxRequests, DefaultWindowMs)
                       THEN Done(req, RateLimited)
                       ELSE [req EXCEPT !.pc = "body", !.admitted = TRUE]]
    /\ arrivals' = arrivals + 1
    /\ UNCHANGED <<harness, build, clock>>

\* path.split('/debug/')[1]: nothing, an order number, or text that is not
\* an order number (the path is not decoded)
DebugOrderNumbers == {<<>>, Number1001, <<"1", "%", "1">>}

\* GET /debug/<orderNumber>: handleDebug to `await fetch`
ArriveDebug(r) ==
    /\ reqs[r].pc = "idle"
    /\ arrivals < MaxArrivals
    /\ \E orderNumber \in DebugOrderNumbers :
        reqs' = [reqs EXCEPT ![r] =
            CallGetOrder([NewRequest EXCEPT !.route = "/debug",
                                            !.orderNumber = Some(orderNumber)])]
    /\ arrivals' = arrivals + 1
    /\ UNCHANGED <<harness, build, clock, requests>>

\* POST /button-control, /shopify-button-control, /inject (part_000): the
\* handler to `await request.json()`
ArriveButton(r) ==
    /\ reqs[r].pc = "idle"
    /\ arrivals < MaxArrivals
    /\ \E route \in ButtonRoutes \cap Routes(build) :
        reqs' = [reqs EXCEPT ![r] = [NewRequest EXCEPT !.pc = "body", !.route = route]]
    /\ arrivals' = arrivals + 1
    /\ UNCHANGED <<harness, build, clock, requests>>

\* any other path: the 404 handler
ArriveOther(r) ==
    /\ reqs[r].pc = "idle"
    /\ arrivals < MaxArrivals
    /\ \E route \in Paths \ Routes(build) :
        reqs' = [reqs EXCEPT ![r] =
            Done([NewRequest EXCEPT !.route = route], EndpointNotFound(route))]
    /\ arrivals' = arrivals + 1
    /\ UNCHANGED <<harness, build, clock, requests>>

\* mutant: the email goes to getOrder unvalidated
ValidateOrderNumberOnly(req) ==
    IF ~TruthyStr(req.orderNumber) /\ ~TruthyStr(req.email)
        THEN Done(req, MissingFields)
    ELSE IF TruthyStr(req.orderNumber) /\ ~validateOrderNumber(req.orderNumber[1])
        THEN Done(req, InvalidOrderNumber)
    ELSE CallGetOrder(req)

\* the criteria checks and the validators, then getOrder
Validate(req) ==
    IF ~TruthyStr(req.orderNumber) /\ ~TruthyStr(req.email)
        THEN Done(req, MissingFields)
    ELSE IF TruthyStr(req.orderNumber) /\ ~validateOrderNumber(req.orderNumber[1])
        THEN Done(req, InvalidOrderNumber)
    ELSE IF TruthyStr(req.email) /\ ~validateEmail(req.email[1])
        THEN Done(req, InvalidEmail)
    ELSE CallGetOrder(req)

\* request.json() settles: it throws on a body that is not JSON; otherwise
\* the handler runs to `await fetch` or to a 400
ReadBody(r) ==
    /\ reqs[r].pc = "body"
    /\ \/ reqs' = [reqs EXCEPT ![r] =
              Done(@, Catch(@.route, <<"Unexpected token in JSON">>))]
       \/ \E orderNumber \in BodyOrderNumbers, email \in BodyEmails :
              reqs' = [reqs EXCEPT ![r] =
                  Validate([@ EXCEPT !.orderNumber = orderNumber, !.email = email])]
    /\ UNCHANGED <<harness, build, clock, requests, arrivals>>

\* mutant: a rejected fetch is sent once more
FetchSettlesRetry(r) ==
    /\ reqs[r].pc = "fetch"
    /\ \/ reqs' = [reqs EXCEPT ![r] =
              IF @.fetches < 2 THEN [@ EXCEPT !.fetches = @ + 1]
              ELSE Done([@ EXCEPT !.answer = "network"],
                        Catch(@.route, <<"fetch failed">>))]
       \/ reqs' = [reqs EXCEPT ![r] = [@ EXCEPT !.pc = "json"]]
    /\ UNCHANGED <<harness, build, clock, requests, arrivals>>

\* fetch settles: it rejects (network failure), or resolves with a status;
\* a status that is not ok is thrown as 'Shopify API error: <status>'
FetchSettles(r) ==
    /\ reqs[r].pc = "fetch"
    /\ \/ reqs' = [reqs EXCEPT ![r] =
              Done([@ EXCEPT !.answer = "network"], Catch(@.route, <<"fetch failed">>))]
       \/ \E status \in FailStatuses :
              reqs' = [reqs EXCEPT ![r] =
                  Done([@ EXCEPT !.answer = "status", !.upstreamStatus = Some(status)],
                       Catch(@.route, ShopifyError(status)))]
       \/ reqs' = [reqs EXCEPT ![r] = [@ EXCEPT !.pc = "json"]]
    /\ UNCHANGED <<harness, build, clock, requests, arrivals>>

\* the rest of getOrder and of the handler, from the parsed answer
Answer(b, req, data, t) ==
    LET order == SelectOrder(req.orderNumber, req.email, data) IN
    LET got == [req EXCEPT !.answer = IF data.nil THEN "absent"
                                      ELSE IF data.at = <<>> THEN "empty"
                                      ELSE "orders"]
    IN  IF order = None
            THEN Done(got, OrderNotFound(req.route, req.orderNumber, req.email))
            ELSE Done([got EXCEPT !.classified = (req.route # "/debug")],
                      Found(b, req.route, order[1], t))

\* response.json() settles: it throws on a body that is not JSON; otherwise
\* the handler runs to its response
ReadResponse(r) ==
    /\ reqs[r].pc = "json"
    /\ \/ reqs' = [reqs EXCEPT ![r] =
              Done([@ EXCEPT !.answer = "invalid"],
                   Catch(@.route, <<"Unexpected token in JSON">>))]
       \/ \E data \in UpstreamData :
              reqs' = [reqs EXCEPT ![r] = Answer(build, @, data, clock)]
    /\ UNCHANGED <<harness, build, clock, requests, arrivals>>

\* the response is sent and the slot is free again
Respond(r) ==
    /\ reqs[r].pc = "done"
    /\ reqs' = [reqs EXCEPT ![r] = NewRequest]
    /\ UNCHANGED <<harness, build, clock, requests, arrivals>>

\* time passes
Tick ==
    /\ \E t \in ClockValues : t > clock /\ clock' = t
    /\ UNCHANGED <<harness, build, requests, arrivals, reqs>>

Next ==
    \/ \E r \in Slots :
        \/ ArriveTrack(r)
        \/ ArriveDebug(r)
        \/ ArriveButton(r)
        \/ ArriveOther(r)
        \/ ReadBody(r)
        \/ FetchSettles(r)
        \/ ReadResponse(r)
        \/ Respond(r)
    \/ Tick

Spec == Init /\ [][Next]_vars

\* The runtime resumes a handler whose awaited promise has settled, and the
\* body of a received request does arrive.  Nothing in the code makes the
\* upstream answer: the fetch carries no timeout and no abort signal, so
\* FetchSettles is under no fairness condition.
Fairness ==
    \A r \in Slots :
        /\ WF_vars(ReadBody(r))
        /\ WF_vars(ReadResponse(r))
        /\ WF_vars(Respond(r))

SpecLive == Spec /\ Fairness

(***************************************************************************)
(* SpecRace: the handlers of Spec for requests to /track that are in       *)
(* flight together, inside one throttle window.  The lookups are narrowed  *)
(* to one order number and an upstream that fails or has no order, and the *)
(* answered requests are kept.  arg is the throttle's map at the start.    *)
(***************************************************************************)
Racers == 1..NumRacers

Status503 == <<"5", "0", "3">>

InvalidNumber == <<"1", " ", "1">>

InvalidAddress == <<"a", "@", "x">>

\* the requests of the race
Narrow ==
    \A r \in Racers :
        /\ reqs[r].email \in {None, Some(InvalidAddress)}
        /\ reqs[r].orderNumber \in {None, Some(Number1001), Some(InvalidNumber)}
        /\ reqs[r].upstreamStatus \in {None, Some(Status503)}
        /\ reqs[r].answer \notin {"empty", "orders"}

InitRace ==
    /\ fn = "race"
    /\ arg \in StartRequests
    /\ ret = None
    /\ build \in Builds
    /\ build = "part_003" => arg = <<>>
    /\ clock = StartClock
    /\ requests = arg
    /\ arrivals = 0
    /\ reqs = [r \in Racers |-> NewRequest]

\* the error handler of the Express build
UnhandledError ==
    createErrorResponse("Internal server error", <<"An unexpected error occurred">>,
        "UNHANDLED_ERROR", 500)

\* the answer of the Express build's limiter
ExpressRateLimited ==
    [status |-> 429,
     body |-> [error |-> "Too many requests from this IP, please try again later.",
               retryAfter |-> "15 minutes"]]

\* POST /track of the Express build: bodyParser.json() first, whose error
\* goes to the error handler; then the limiter, a library that answers 429
\* or lets the request through; then the handler to `await getOrder`
ArriveTrackExpress(r) ==
    /\ build = "part_003"
    /\ reqs[r].pc = "idle"
    /\ arrivals < MaxArrivals
    /\ \E ip \in {IpCloudflare, IpForwarded} :
        LET req == [NewRequest EXCEPT !.route = "/track", !.client = Some(ip)] IN
        \/ reqs' = [reqs EXCEPT ![r] = Done(req, UnhandledError)]
        \/ reqs' = [reqs EXCEPT ![r] = Done(req, ExpressRateLimited)]
        \/ \E orderNumber \in BodyOrderNumbers, email \in BodyEmails :
               reqs' = [reqs EXCEPT ![r] =
                   Validate([req EXCEPT !.admitted = TRUE,
                                        !.orderNumber = orderNumber, !.email = email])]
    /\ arrivals' = arrivals + 1
    /\ UNCHANGED <<harness, build, clock, requests>>

\* time passes, the window of the start still open
RaceTick == Tick /\ clock' - StartClock < DefaultWindowMs

NextRace ==
    \/ \E r \in Racers :
        /\ \/ build \in WorkerBuilds /\ ArriveTrack(r)
           \/ ArriveTrackExpress(r)
           \/ ReadBody(r)
           \/ FetchSettles(r)
           \/ ReadResponse(r)
        /\ Narrow'
    \/ RaceTick

SpecRace == InitRace /\ [][NextRace]_vars

(***************************************************************************)
(* SpecQuery: the selector getOrder builds, for order numbers with the     *)
(* marker '#' at any place and for every email.                            *)
(***************************************************************************)
QueryOrderNumbers == {None} \cup {Some(n) : n \in SeqsUpTo({"#", "1"}, MaxQueryLength)}

QueryEmails == {None, Some(<<>>), Some(EmailA), Some(EmailAUpper), Some(EmailB)}

InitQuery ==
    /\ ServiceIdle
    /\ fn = "getOrder"
    /\ arg \in [orderNumber : QueryOrderNumbers, email : QueryEmails]
    /\ ret = None

BuildQuery ==
    /\ fn = "getOrder"
    /\ ret = None
    /\ ret' = Some(getOrderUrl(arg.orderNumber, arg.email))
    /\ UNCHANGED <<fn, arg, service>>

SpecQuery == InitQuery /\ [][BuildQuery]_vars

(***************************************************************************)
(* SpecResult: the success response of /track in each build, for display   *)
(* names with the marker '#' at any place.                                 *)
(***************************************************************************)
DisplayNames == SeqsUpTo({"#", "1", "A"}, MaxNameLength)

InitResult ==
    /\ ServiceIdle
    /\ fn = "result"
    /\ arg \in [build : Builds,
                 order : {Order(1, name, Some(EmailA), CreatedAt, None, NilArr) :
                              name \in DisplayNames}]
    /\ ret = None

Result ==
    /\ fn = "result"
    /\ ret = None
    /\ ret' = Some(Found(arg.build, "/track", arg.order, CreatedAt + MsPerHour))
    /\ UNCHANGED <<fn, arg, service>>

SpecResult == InitResult /\ [][Result]_vars

(***************************************************************************)
(* SpecThrottle: calls of rateLimiter.isAllowed for two clients at times   *)
(* that do not decrease, with one maxRequests and one windowMs throughout. *)
(* The times are those around the start and the end of a window that opens *)
(* at 0.  ret is the log of the calls: who called, when, and the outcome.  *)
(***************************************************************************)
ThrottleClients == {IpCloudflare, "unknown"}

ThrottleTimes ==
    {0, TimeStep, 2 * TimeStep,
     TestWindowMs, TestWindowMs + TimeStep, TestWindowMs + 2 * TimeStep,
     2 * TestWindowMs}

InitThrottle ==
    /\ fn = "isAllowed"
    /\ arg \in [maxRequests : 1..MaxLimit, windowMs : {TestWindowMs}]
    /\ ret = <<>>
    /\ build = "index"
    /\ clock = 0
    /\ requests = <<>>
    /\ arrivals = 0
    /\ reqs = <<>>

\* rateLimiter.isAllowed(ip, maxRequests, windowMs) at Date.now() = clock
IsAllowed(ip) ==
    /\ fn = "isAllowed"
    /\ arrivals < MaxCalls
    /\ requests' = requestsAfter(requests, ip, clock, arg.maxRequests, arg.windowMs)
    /\ ret' = Append(ret, [ip |-> ip, at |-> clock,
                           allowed |-> isAllowed(requests, ip, clock,
                                                 arg.maxRequests, arg.windowMs)])
    /\ arrivals' = arrivals + 1
    /\ UNCHANGED <<fn, arg, build, clock, reqs>>

\* time passes between two calls
Advance ==
    /\ fn = "isAllowed"
    /\ \E t \in ThrottleTimes : t > clock /\ clock' = t
    /\ UNCHANGED <<fn, arg, ret, build, requests, arrivals, reqs>>

NextThrottle ==
    \/ \E ip \in ThrottleClients : IsAllowed(ip)
    \/ Advance

SpecThrottle == InitThrottle /\ [][NextThrottle]_vars

(***************************************************************************)
(* SpecProgress: successive lookups of one order while it progresses at    *)
(* the upstream store: its fulfillments change without the extracted       *)
(* tracking number being lost, it is closed, and time passes.  arg is the  *)
(* order as the store has it and the present time; ret is the log of the   *)
(* statuses returned.                                                      *)
(***************************************************************************)
ProgressTimes ==
    {CreatedAt + a : a \in {0, ProcessingHours * MsPerHour - 1,
                            ProcessingHours * MsPerHour,
                            (ProcessingHours + 1) * MsPerHour}}

InitProgress ==
    /\ ServiceIdle
    /\ fn = "lookups"
    /\ arg \in [build : Builds,
                 order : {Order(1, Name1001, Some(EmailA), CreatedAt, None, fs) :
                             fs \in ClassifyFulfillments},
                 now : {CreatedAt}]
    /\ ret = <<>>

\* a lookup: determineOrderStatus(order) at dayjs() = now
Lookup ==
    /\ fn = "lookups"
    /\ Len(ret) < MaxLookups
    /\ ret' = Append(ret, Classifier(arg.build, arg.order, arg.now).status)
    /\ UNCHANGED <<fn, arg, service>>

\* the store changes the fulfillments; a tracking number the extraction
\* found is still found, perhaps another one
Ship ==
    /\ fn = "lookups"
    /\ \E fs \in ClassifyFulfillments \ {arg.order.fulfillments} :
        /\ Truthy(ExtractTracking(arg.order))
               => Truthy(ExtractTracking([arg.order EXCEPT !.fulfillments = fs]))
        /\ arg' = [arg EXCEPT !.order.fulfillments = fs]
    /\ UNCHANGED <<fn, ret, service>>

\* the store closes the order
Close ==
    /\ fn = "lookups"
    /\ arg.order.closed_at = None
    /\ arg' = [arg EXCEPT !.order.closed_at = Some(arg.now)]
    /\ UNCHANGED <<fn, ret, service>>

\* time passes
Later ==
    /\ fn = "lookups"
    /\ \E t \in ProgressTimes : t > arg.now /\ arg' = [arg EXCEPT !.now = t]
    /\ UNCHANGED <<fn, ret, service>>

NextProgress == Lookup \/ Ship \/ Close \/ Later

SpecProgress == InitProgress /\ [][NextProgress]_vars

\* the call has returned
Returned(f) == fn = f /\ ret # None

(***************************************************************************)
(* Claims about the classifier (SpecClassify).                             *)
(***************************************************************************)
Age == arg.now - arg.order.created_at

\* C1: in every build, an order whose closed_at is set is classified
\* "Order Delivered" with deliveredAt equal to that closed_at, whatever the
\* tracking data and the age.
C1_ClosedIsDelivered ==
    Returned("classify") /\ arg.order.closed_at # None
        => /\ ret[1].status = "Order Delivered"
           /\ ret[1].deliveredAt = arg.order.closed_at

\* C1 witness: a closed order that also has a tracking number and is older
\* than 48 hours has been classified.
C1_Witness ==
    /\ Returned("classify")
    /\ arg.order.closed_at # None
    /\ Truthy(ExtractTracking(arg.order))
    /\ Age >= ProcessingHours * MsPerHour

\* C2 as stated: an order with no closed_at and a non-null extracted
\* tracking number is classified "In Transit" carrying that number.
C2_NonNullIsInTransit ==
    Returned("classify") /\ arg.order.closed_at = None
                         /\ ExtractTracking(arg.order) # None
        => /\ ret[1].status = "In Transit"
           /\ ret[1].trackingNumber = ExtractTracking(arg.order)

\* C2 amended: an order with no closed_at and a non-empty extracted tracking
\* number is classified "In Transit" carrying that number, at every age.
C2_NonEmptyIsInTransit ==
    Returned("classify") /\ arg.order.closed_at = None
                         /\ Truthy(ExtractTracking(arg.order))
        => /\ ret[1].status = "In Transit"
           /\ ret[1].trackingNumber = ExtractTracking(arg.order)

\* C2 witness: an open order younger than 48 hours with a tracking number
\* has been classified.
C2_Witness ==
    /\ Returned("classify")
    /\ arg.order.closed_at = None
    /\ Truthy(ExtractTracking(arg.order))
    /\ Age >= 0
    /\ Age < ProcessingHours * MsPerHour

NoTracking == arg.order.closed_at = None /\ ~Truthy(ExtractTracking(arg.order))

\* the status half of C3: with no closed_at and no tracking number the status
\* is "Order Processing" exactly when fewer than 48 whole hours have passed
\* (the difference truncated), and "In Transit" otherwise.
C3_Threshold ==
    Returned("classify") /\ NoTracking
        => /\ ret[1].status = "Order Processing" <=> Age < ProcessingHours * MsPerHour
           /\ ret[1].status = "In Transit" <=> Age >= ProcessingHours * MsPerHour

\* C3: the threshold as above, and the "In Transit" result of an order 48
\* hours old or older carries the reason "Order is in transit (48+ hours)".
C3_ThresholdAndReason ==
    /\ C3_Threshold
    /\ Returned("classify") /\ NoTracking /\ Age >= ProcessingHours * MsPerHour
           => /\ "disabledReason" \in DOMAIN ret[1]
              /\ ret[1].disabledReason = Some("Order is in transit (48+ hours)")

\* C3 witness: an order exactly 48 hours old with no tracking number has
\* been classified.
C3_Witness ==
    Returned("classify") /\ NoTracking /\ Age = ProcessingHours * MsPerHour

\* C4: the trackingNumber of a delivered order's result is the extracted
\* value (null exactly when the extraction finds none).
C4_DeliveredPassThrough ==
    Returned("classify") /\ arg.order.closed_at # None
        => ret[1].trackingNumber = ExtractTracking(arg.order)

\* C4 witness: a closed order with a tracking number has been classified.
C4_Witness ==
    /\ Returned("classify")
    /\ arg.order.closed_at # None
    /\ Truthy(ExtractTracking(arg.order))

(***************************************************************************)
(* Claims about the tracking extraction (SpecExtract).                     *)
(***************************************************************************)
First == arg.fulfillments.at[1]

ListNonEmpty == NonEmptyArr(arg.fulfillments) /\ NonEmptyArr(First.tracking_numbers)

\* C6 as stated: whenever the first fulfillment's tracking_numbers list is
\* non-empty the extracted tracking number is its first element.
C6_ListWins ==
    Returned("extract") /\ ListNonEmpty
        => ret[1] = Some(First.tracking_numbers.at[1])

\* C6 amended: whenever the list is non-empty and its first element is a
\* non-empty string, the extracted number is that element; whenever the
\* list is non-empty no singular field is returned, and a line item's
\* number is returned only when the first element is empty.
C6_NonEmptyFirstWins ==
    Returned("extract") /\ ListNonEmpty
        => /\ First.tracking_numbers.at[1] # ""
                => ret[1] = Some(First.tracking_numbers.at[1])
           /\ ret[1] \notin {Some("S1"), Some("C1")}
           /\ ret[1] \in {Some("L1"), Some("L2")}
                => First.tracking_numbers.at[1] = ""

\* C6 witness: a fulfillment with a non-empty list, both singular fields and
\* a line item number has been through the extraction.
C6_Witness ==
    /\ Returned("extract")
    /\ ListNonEmpty
    /\ First.tracking_numbers.at[1] # ""
    /\ Truthy(First.tracking_number)
    /\ Truthy(First.trackingNumber)
    /\ ~First.line_items.nil
    /\ \E i \in 1..Len(First.line_items.at) :
           Truthy(First.line_items.at[i].tracking_number)

(***************************************************************************)
(* Claims about the order selection (SpecSelect).                          *)
(***************************************************************************)
R == arg.data.at

BothSupplied == TruthyStr(arg.query.orderNumber) /\ TruthyStr(arg.query.email)

\* the candidates whose email equals the supplied one, letter case aside
Matching ==
    {i \in 1..Len(R) : R[i].email \notin {None, Some(<<>>)}
                        /\ toLowerCase(R[i].email[1]) = toLowerCase(arg.query.email[1])}

Least(S) == CHOOSE i \in S : \A j \in S : i <= j

\* C7: with both criteria supplied and a non-empty result list, the selected
\* order is the first whose email equals the supplied email case
\* insensitively, and the first of the list when there is none; it is never
\* null.
C7_FirstMatchElseFirst ==
    Returned("select") /\ BothSupplied /\ Len(R) > 0
        => ret[1] = Some(IF Matching # {} THEN R[Least(Matching)] ELSE R[1])

\* C7 witness: with both criteria supplied the selection has returned the
\* second order, whose email differs from the supplied one in letter case
\* only, the first order having another email.
C7_Witness ==
    /\ Returned("select") /\ BothSupplied /\ Len(R) >= 2
    /\ Matching # {} /\ Least(Matching) = 2
    /\ R[2].email[1] # arg.query.email[1]
    /\ R[1].email # None
    /\ ret[1] = Some(R[2])

\* the candidates with the latest creation time
Newest == {i \in 1..Len(R) : \A j \in 1..Len(R) : R[j].created_at <= R[i].created_at}

\* C8: with exactly one criterion supplied and a non-empty result list, the
\* selected order has the maximum created_at, and is the earliest such order
\* of the list.
C8_NewestEarliest ==
    Returned("select") /\ ~BothSupplied /\ Len(R) > 0
        => ret[1] = Some(R[Least(Newest)])

\* C8 witness: with one criterion supplied the selection has returned the
\* second of three orders, which ties with the third on the latest creation
\* time.
C8_Witness ==
    /\ Returned("select") /\ ~BothSupplied /\ Len(R) = 3
    /\ Newest = {2, 3}
    /\ ret[1] = Some(R[2])

C10_WitnessTooLong ==
    /\ Returned("validateOrderNumber")
    /\ Len(arg) = MaxOrderNumberLength + 1
    /\ \A i \in 1..Len(arg) : arg[i] \in OrderNumberClass
    /\ ret[1] = FALSE

(***************************************************************************)
(* Claims about the request handlers (Spec).                               *)
(***************************************************************************)
\* the requests that have been answered
Answered == {r \in Slots : reqs[r].pc = "done"}

\* the requests to /track answered with a result
Tracked == {r \in Answered : reqs[r].route = "/track" /\ reqs[r].response[1].status = 200}

TrackResult(r) == reqs[r].response[1].body.data

\* C5: every result of a successful lookup carries buttonsDisabled, and
\* buttonsDisabled is false exactly when the status is Order Processing (it
\* is true for In Transit and for Order Delivered).
C5_ButtonsDisabled ==
    \A r \in Tracked :
        /\ "buttonsDisabled" \in DOMAIN TrackResult(r)
        /\ TrackResult(r).buttonsDisabled = FALSE
               <=> TrackResult(r).status = "Order Processing"

\* where a result carries buttonsDisabled, it is false exactly when the
\* status is Order Processing
C5_ButtonsFollowStatus ==
    \A r \in Tracked :
        "buttonsDisabled" \in DOMAIN TrackResult(r)
            => (TrackResult(r).buttonsDisabled = FALSE
                    <=> TrackResult(r).status = "Order Processing")

\* the build of src/unnamed/part_000 has answered a lookup with a result
\* whose buttons are enabled
C5_Witness ==
    \E r \in Tracked :
        /\ build = "part_000"
        /\ TrackResult(r).buttonsDisabled = FALSE

\* C9: when the upstream answers 2xx and the orders array of its body is
\* absent or empty, the request is answered 404 with code ORDER_NOT_FOUND on
\* every lookup route (not with an upstream or internal error), and the
\* status classifier has not been run for it.
C9_NoOrdersIsNotFound ==
    \A r \in Answered :
        reqs[r].answer \in {"absent", "empty"}
            => /\ reqs[r].response[1].status = 404
               /\ reqs[r].response[1].body.code = "ORDER_NOT_FOUND"
               /\ reqs[r].response[1].body.error = "Order not found"
               /\ ~reqs[r].classified

\* C9 witness: a lookup by /track whose upstream answer had no orders array
\* has been answered.
C9_Witness ==
    \E r \in Answered :
        /\ reqs[r].route = "/track"
        /\ reqs[r].answer = "absent"
        /\ reqs[r].fetches = 1

\* a lookup on each other route has been answered after an empty orders array
C9_WitnessEmptyDebug ==
    \E r \in Answered : reqs[r].route = "/debug" /\ reqs[r].answer = "empty"

C9_WitnessEmptyButton ==
    \E r \in Answered : reqs[r].route \in ButtonRoutes /\ reqs[r].answer = "empty"

(***************************************************************************)
(* Claims about validateEmail (SpecEmail).                                 *)
(***************************************************************************)
\* no whitespace and no '@'
Plain(t) == \A i \in 1..Len(t) : t[i] \notin Whitespace /\ t[i] # "@"

\* arg = L @ D with the '@' at position a
LocalPart(a) == SubSeq(arg, 1, a - 1)

DomainPart(a) == SubSeq(arg, a + 1, Len(arg))

\* C11: validateEmail accepts a string exactly when it has the form L@D with
\* L non-empty and free of whitespace and '@', and D free of whitespace and
\* '@' and holding at least one '.', wherever in D the '.' is.
C11_AnyDot ==
    Returned("validateEmail")
        => (ret[1] <=> \E a \in 1..Len(arg) :
                          /\ arg[a] = "@"
                          /\ LocalPart(a) # <<>> /\ Plain(LocalPart(a))
                          /\ Plain(DomainPart(a))
                          /\ \E i \in 1..Len(DomainPart(a)) : DomainPart(a)[i] = ".")

\* C11 as the code has it: validateEmail accepts a string exactly when it
\* has the form L@D with L non-empty and free of whitespace and '@', and D
\* free of whitespace and '@' and holding a '.' that is neither its first
\* nor its last character.
C11_InnerDot ==
    Returned("validateEmail")
        => (ret[1] <=> \E a \in 1..Len(arg) :
                          /\ arg[a] = "@"
                          /\ LocalPart(a) # <<>> /\ Plain(LocalPart(a))
                          /\ Plain(DomainPart(a))
                          /\ \E i \in 2..(Len(DomainPart(a)) - 1) :
                                 DomainPart(a)[i] = ".")

\* C11 witness: a domain part that begins with two dots, the second of them
\* inside it, has been accepted.
C11_Witness ==
    /\ Returned("validateEmail")
    /\ arg = <<"a", "@", ".", ".", "a">>
    /\ ret[1] = TRUE

\* a domain part whose only '.' is its first character has been rejected
C11_WitnessLeadingDot ==
    /\ Returned("validateEmail")
    /\ arg = <<"a", "@", ".", "a">>
    /\ ret[1] = FALSE

(***************************************************************************)
(* Claims about the throttle (SpecThrottle).                               *)
(***************************************************************************)
\* the calls of client ip that were admitted
Admitted(ip) == {i \in 1..Len(ret) : ret[i].ip = ip /\ ret[i].allowed}

\* C12: after any sequence of isAllowed calls for one client at times that
\* do not decrease, the admitted calls whose timestamps lie within a time
\* span of length windowMs, its two ends included, are never more than
\* maxRequests.
C12_SpanBound ==
    fn = "isAllowed" =>
        \A ip \in ThrottleClients : \A i \in Admitted(ip) :
            Cardinality({j \in Admitted(ip) :
                            /\ ret[i].at <= ret[j].at
                            /\ ret[j].at <= ret[i].at + arg.windowMs})
                <= arg.maxRequests

\* the bound on spans that leave out one end: the admitted calls of one
\* client that are less than windowMs apart are never more than maxRequests
C12_HalfOpenSpanBound ==
    fn = "isAllowed" =>
        \A ip \in ThrottleClients : \A i \in Admitted(ip) :
            Cardinality({j \in Admitted(ip) :
                            /\ ret[i].at <= ret[j].at
                            /\ ret[j].at < ret[i].at + arg.windowMs})
                <= arg.maxRequests

\* a client has had maxRequests calls admitted and a call rejected in one
\* window, and a call admitted exactly windowMs after its first
C12_Witness ==
    /\ fn = "isAllowed"
    /\ \E i, j, k \in 1..Len(ret) :
        /\ i < j /\ j < k
        /\ ret[i].ip = ret[j].ip /\ ret[j].ip = ret[k].ip
        /\ ret[i].allowed /\ ~ret[j].allowed /\ ret[k].allowed
        /\ ret[k].at = ret[i].at + arg.windowMs

\* the calls of the caller of call k admitted before it and at most d
\* before it
AdmittedBefore(k, d) ==
    {j \in 1..(k - 1) :
        ret[j].ip = ret[k].ip /\ ret[j].allowed /\ ret[k].at - ret[j].at <= d}

\* C13: a call made when maxRequests calls of its client were admitted less
\* than windowMs before it is rejected, and a call made when fewer than
\* maxRequests calls of its client were admitted in the windowMs before it
\* (the older ones having aged out) is admitted.
C13_Recovery ==
    fn = "isAllowed" =>
        \A k \in 1..Len(ret) :
            /\ Cardinality(AdmittedBefore(k, arg.windowMs - 1)) >= arg.maxRequests
                   => ~ret[k].allowed
            /\ Cardinality(AdmittedBefore(k, arg.windowMs)) < arg.maxRequests
                   => ret[k].allowed

\* C13 witness: with maxRequests = 2 and windowMs = 1000 one client has
\* called at 0 and 100 (admitted), at 200 (rejected) and at 1100 (admitted).
C13_Witness ==
    /\ fn = "isAllowed"
    /\ arg = [maxRequests |-> 2, windowMs |-> TestWindowMs]
    /\ ret = <<[ip |-> IpCloudflare, at |-> 0, allowed |-> TRUE],
               [ip |-> IpCloudflare, at |-> TimeStep, allowed |-> TRUE],
               [ip |-> IpCloudflare, at |-> 2 * TimeStep, allowed |-> FALSE],
               [ip |-> IpCloudflare, at |-> TestWindowMs + TimeStep, allowed |-> TRUE]>>

(***************************************************************************)
(* Claims about the order of the steps of a request (Spec).                *)
(***************************************************************************)
\* the requests on whose behalf the upstream store has been queried
Queried == {r \in Slots : reqs[r].fetches > 0}

\* C14: no upstream order query is issued on behalf of a request, on any
\* route, unless the throttle has first admitted the client of that request.
C14_AdmittedBeforeQuery ==
    \A r \in Queried : reqs[r].admitted

\* on /track the query follows the admission
C14_TrackAdmittedBeforeQuery ==
    \A r \in Queried : reqs[r].route = "/track" => reqs[r].admitted

\* a query has been issued for a request to /track, which was admitted,
\* and one for a request to another route
C14_Witness ==
    \E r \in Queried : reqs[r].route = "/track" /\ reqs[r].admitted

C14_WitnessButton ==
    \E r \in Queried : reqs[r].route \in ButtonRoutes

\* the criteria of request r pass the checks of the handlers: one of them
\* is supplied, and each one supplied is accepted by its validator
CriteriaValid(r) ==
    /\ TruthyStr(reqs[r].orderNumber) \/ TruthyStr(reqs[r].email)
    /\ TruthyStr(reqs[r].orderNumber) => validateOrderNumber(reqs[r].orderNumber[1])
    /\ TruthyStr(reqs[r].email) => validateEmail(reqs[r].email[1])

\* the requests answered 400: MISSING_FIELDS, INVALID_ORDER_NUMBER or
\* INVALID_EMAIL
InputErrors == {r \in Answered : reqs[r].response[1].status = 400}

\* the routes whose handlers read the criteria from a JSON body and run the
\* criteria checks and the validators
BodyRoutes == {"/track"} \cup ButtonRoutes

C15_EveryRouteValidated ==
    \A r \in Queried : CriteriaValid(r)

UpstreamFailed == {r \in Answered : reqs[r].answer \in {"network", "status"}}

Status401 == <<"4", "0", "1">>

Status403 == <<"4", "0", "3">>

\* the error code the failure of request r is to be reported with
FailureKind(r) ==
    IF reqs[r].upstreamStatus = Some(Status401) THEN "SHOPIFY_AUTH_ERROR"
    ELSE IF reqs[r].upstreamStatus = Some(Status403) THEN "SHOPIFY_ACCESS_DENIED"
    ELSE "SHOPIFY_SERVICE_UNAVAILABLE"

\* C16: a failed upstream call is reported as the authentication error for
\* status 401, as access denied for status 403, and as service unavailable
\* for every other status that is not 2xx (404 and 429 among them) and for
\* a network failure; it is never reported as an internal error.
C16_FailureClassified ==
    \A r \in UpstreamFailed : reqs[r].response[1].body.code = FailureKind(r)

\* what holds: on /track the statuses 401, 403 and 5xx are reported as the
\* claim says
C16_TrackClassifies401403And5xx ==
    \A r \in UpstreamFailed :
        /\ reqs[r].route = "/track"
        /\ reqs[r].upstreamStatus # None
        /\ reqs[r].upstreamStatus[1][1] = "5"
               \/ reqs[r].upstreamStatus[1] \in {Status401, Status403}
        => reqs[r].response[1].body.code = FailureKind(r)

\* a request to /track whose upstream answered 503 has been answered
\* SHOPIFY_SERVICE_UNAVAILABLE
C16_Witness ==
    \E r \in UpstreamFailed :
        /\ reqs[r].route = "/track"
        /\ reqs[r].upstreamStatus = Some(<<"5", "0", "3">>)
        /\ reqs[r].response[1].body.code = "SHOPIFY_SERVICE_UNAVAILABLE"

\* C17: every admitted request eventually produces a result, even when the
\* upstream order store never answers.
C17_AdmittedIsAnswered ==
    \A r \in Slots : reqs[r].admitted ~> reqs[r].pc = "done"

\* an admitted request is waiting for the upstream to answer
C17_Witness ==
    \E r \in Slots : reqs[r].admitted /\ reqs[r].pc = "fetch"

\* C18: each request causes at most one upstream order query, whatever
\* the outcome of the query: none is sent again after an upstream error, and
\* none is added when no order has the supplied email.
C18_AtMostOneQuery ==
    \A r \in Slots : reqs[r].fetches <= 1

\* C18 witness: a request whose only query failed has been answered, with
\* one query made.
C18_Witness ==
    \E r \in UpstreamFailed : reqs[r].fetches = 1

\* a request with both criteria, none of whose orders has the supplied
\* email, has been answered with a result after one query
C18_WitnessNoMatch ==
    \E r \in Tracked :
        /\ reqs[r].fetches = 1
        /\ TruthyStr(reqs[r].orderNumber) /\ TruthyStr(reqs[r].email)
        /\ TrackResult(r).orderDate = StartClock - 72 * MsPerHour

\* the requests whose upstream call threw: the fetch rejected, the answer
\* was not 2xx, or its body was not JSON
UpstreamThrew == {r \in Answered : reqs[r].answer \in {"network", "status", "invalid"}}

\* the messages of the failure responses that say nothing of the upstream's
\* error
FixedMessages ==
    {<<"An unexpected error occurred while processing your request">>,
     <<"Shopify API authentication error">>,
     <<"Shopify API access denied">>,
     <<"Shopify API is currently unavailable">>}

\* C19: on every route the message of the response to a request whose
\* upstream call failed is one of a fixed set of messages and carries
\* nothing of the upstream failure (its status code, its error text).
C19_NoUpstreamDetail ==
    \A r \in UpstreamThrew : reqs[r].response[1].body.message \in FixedMessages

\* what holds: the same on every route but /debug
C19_NoUpstreamDetailButDebug ==
    \A r \in UpstreamThrew :
        reqs[r].route # "/debug" => reqs[r].response[1].body.message \in FixedMessages

\* a request to /debug whose upstream answered 401 has been answered with
\* a message that holds the status
C19_Witness ==
    \E r \in UpstreamThrew :
        /\ reqs[r].route = "/debug"
        /\ reqs[r].upstreamStatus = Some(Status401)
        /\ Includes(reqs[r].response[1].body.message, Status401)

(***************************************************************************)
(* Claims about successive lookups of one order (SpecProgress).            *)
(***************************************************************************)
Rank(status) ==
    CASE status = "Order Processing" -> 1
      [] status = "In Transit" -> 2
      [] status = "Order Delivered" -> 3

\* C20: for one order whose upstream data only progresses (a tracking
\* number once extracted stays, closed_at once set stays) and with now not
\* decreasing, the statuses of successive lookups do not decrease in the
\* order Processing < In Transit < Delivered: Delivered is followed by
\* nothing else and In Transit is never followed by Processing.
C20_StatusMovesForward ==
    fn = "lookups" =>
        \A i, j \in 1..Len(ret) : i < j => Rank(ret[i]) <= Rank(ret[j])

\* C20 witness: three lookups of one order have returned Processing, then
\* In Transit, then Delivered.
C20_Witness ==
    /\ fn = "lookups"
    /\ ret = <<"Order Processing", "In Transit", "Order Delivered">>

\* the clients that have called
Callers == {ret[k].ip : k \in 1..Len(ret)}

\* the last call of client ip
LastCall(ip) ==
    CHOOSE k \in 1..Len(ret) :
        ret[k].ip = ip /\ \A j \in (k + 1)..Len(ret) : ret[j].ip # ip

\* the timestamps of the admitted calls of client ip, in their order, that
\* were less than windowMs old at its last call
OwnWindow(ip) ==
    LET k == LastCall(ip)
        s == SelectSeq(ret, LAMBDA c : /\ c.ip = ip
                                       /\ c.allowed
                                       /\ c.at > ret[k].at - arg.windowMs)
    IN  [i \in 1..Len(s) |-> s[i].at]

\* the timestamp is in the recorded sequence of client ip
Recorded(ip, t) == \E i \in 1..Len(requests[ip]) : requests[ip][i] = t

\* C21: at an isAllowed call at time now, a recorded timestamp t is kept
\* and counts toward the limit whenever t >= now - windowMs: a timestamp
\* exactly windowMs old is kept.
C21_KeptAtWindowStart ==
    fn = "isAllowed" =>
        \A ip \in Callers :
            LET k == LastCall(ip)
                kept == {j \in 1..(k - 1) : /\ ret[j].ip = ip
                                            /\ ret[j].allowed
                                            /\ ret[j].at >= ret[k].at - arg.windowMs}
            IN  /\ \A j \in kept : Recorded(ip, ret[j].at)
                /\ Cardinality(kept) >= arg.maxRequests => ~ret[k].allowed

\* what holds: a timestamp less than windowMs old is kept and counts
C21_KeptInsideWindow ==
    fn = "isAllowed" =>
        \A ip \in Callers :
            LET k == LastCall(ip)
                kept == {j \in 1..(k - 1) : /\ ret[j].ip = ip
                                            /\ ret[j].allowed
                                            /\ ret[j].at > ret[k].at - arg.windowMs}
            IN  /\ \A j \in kept : Recorded(ip, ret[j].at)
                /\ Cardinality(kept) >= arg.maxRequests => ~ret[k].allowed

\* a client has called exactly windowMs after a call of its that was
\* admitted, and that timestamp is no longer recorded
C21_Witness ==
    /\ fn = "isAllowed"
    /\ \E ip \in Callers :
        \E j \in 1..(LastCall(ip) - 1) :
            /\ ret[j].ip = ip /\ ret[j].allowed
            /\ ret[j].at = ret[LastCall(ip)].at - arg.windowMs
            /\ ~Recorded(ip, ret[j].at)

\* C22: a rejected isAllowed call records nothing: after it the sequence of
\* the client is the pruned sequence from before the call, which is the
\* timestamps of its admitted calls still inside the window, and the time
\* of the rejected call is not appended.
C22_RejectedRecordsNothing ==
    fn = "isAllowed" =>
        \A ip \in Callers :
            ~ret[LastCall(ip)].allowed
                => /\ requests[ip] = OwnWindow(ip)
                   /\ Len(requests[ip]) = arg.maxRequests

\* C22 witness: a client has been rejected twice in a row, at two times.
C22_Witness ==
    /\ fn = "isAllowed"
    /\ \E ip \in Callers :
        \E j \in 1..(LastCall(ip) - 1) :
            /\ ret[j].ip = ip /\ ~ret[j].allowed /\ ~ret[LastCall(ip)].allowed
            /\ ret[j].at < ret[LastCall(ip)].at

\* C24: a call for one client leaves the sequence of every other client
\* unchanged, and the outcome of a call does not depend on the calls of the
\* other clients: the sequence recorded for a client is made of its own
\* admitted calls, and a call is admitted exactly when fewer than
\* maxRequests of its own client's admitted calls are inside the window.
C24_ClientsIndependent ==
    fn = "isAllowed" =>
        /\ DOMAIN requests = Callers
        /\ \A ip \in Callers : requests[ip] = OwnWindow(ip)
        /\ \A k \in 1..Len(ret) :
               ret[k].allowed
                   <=> Cardinality({j \in 1..(k - 1) :
                                       /\ ret[j].ip = ret[k].ip
                                       /\ ret[j].allowed
                                       /\ ret[j].at > ret[k].at - arg.windowMs})
                           < arg.maxRequests

\* C24 witness: one client has used up its limit and been rejected, and
\* the other client has then been admitted at the same time.
C24_Witness ==
    /\ fn = "isAllowed"
    /\ \E j, k \in 1..Len(ret) :
        /\ j < k
        /\ ret[j].ip # ret[k].ip
        /\ ret[j].at = ret[k].at
        /\ ~ret[j].allowed /\ ret[k].allowed

(***************************************************************************)
(* Claims about the throttle of requests in flight together (SpecRace).    *)
(***************************************************************************)
RaceClients == {IpCloudflare, IpForwarded, "unknown"}

\* the timestamps recorded for client ip at the start, and now
Base(ip) == IF ip \in DOMAIN arg THEN Len(arg[ip]) ELSE 0

Stored(ip) == IF ip \in DOMAIN requests THEN Len(requests[ip]) ELSE 0

\* the requests of client ip
RequestsOf(ip) == {r \in Racers : reqs[r].client = Some(ip)}

AdmittedOf(ip) == {r \in RequestsOf(ip) : reqs[r].admitted}

RejectedOf(ip) ==
    {r \in RequestsOf(ip) : reqs[r].pc = "done" /\ reqs[r].response[1].status = 429}

\* the request is suspended at one of its awaits
Suspended(r) == reqs[r].pc \in {"body", "fetch", "json"}

\* C23: under every interleaving of the requests of one client, which
\* suspend only at the body read and at the upstream call, the throttle's
\* read, prune, check and append are one step: every admitted request has
\* its own timestamp in the sequence (no two passed the check against the
\* same sequence), and the requests admitted within the window are at most
\* maxRequests.
C23_ThrottleAtomic ==
    fn = "race" /\ build \in WorkerBuilds =>
        \A ip \in RaceClients :
            /\ Stored(ip) = Base(ip) + Cardinality(AdmittedOf(ip))
            /\ Stored(ip) <= DefaultMaxRequests

\* C23 witness: while a request admitted as the last one of the limit is
\* suspended, a request of the same client has been rejected.
C23_Witness ==
    /\ fn = "race"
    /\ build \in WorkerBuilds
    /\ \E ip \in RaceClients :
        /\ \E r \in AdmittedOf(ip) : Suspended(r)
        /\ RejectedOf(ip) # {}

\* the requests answered with an input error or after a body that was not
\* JSON
InputFailures ==
    {r \in Racers :
        /\ reqs[r].pc = "done"
        /\ reqs[r].route = "/track"
        /\ reqs[r].fetches = 0
        /\ reqs[r].response[1].status \in {400, 500}}

C29_WorkerInputFailuresCounted ==
    fn = "race" /\ build \in WorkerBuilds =>
        /\ \A r \in InputFailures : reqs[r].admitted
        /\ \A ip \in RaceClients :
               Stored(ip) >= Base(ip) + Cardinality(InputFailures \cap RequestsOf(ip))

C30_UnknownShared ==
    /\ clientIP(None, None) = "unknown"
    /\ \A cf \in {None, Some(IpCloudflare)}, xff \in {None, Some(IpForwarded)} :
           clientIP(cf, xff) = "unknown" <=> cf = None /\ xff = None
    /\ fn = "race" /\ build \in WorkerBuilds =>
           /\ Stored("unknown") = Base("unknown") + Cardinality(AdmittedOf("unknown"))
           /\ RejectedOf("unknown") # {} => Stored("unknown") = DefaultMaxRequests
           /\ \A r \in RequestsOf("unknown") :
                  reqs[r].pc # "idle" /\ ~reqs[r].admitted => r \in RejectedOf("unknown")

\* C30 witness: of two requests without the headers one has been admitted
\* as the last of the limit and the other rejected.
C30_Witness ==
    /\ fn = "race"
    /\ build \in WorkerBuilds
    /\ AdmittedOf("unknown") # {}
    /\ RejectedOf("unknown") # {}

(***************************************************************************)
(* Claims about the fallback order of the extraction (SpecExtract).        *)
(***************************************************************************)
\* the positions of the line items that have a tracking number
TrackedItems(f) ==
    IF f.line_items.nil THEN {}
    ELSE {i \in 1..Len(f.line_items.at) : Truthy(f.line_items.at[i].tracking_number)}

\* C25: when the first fulfillment's tracking list is absent or empty, the
\* result is the singular tracking_number if it is non-empty, else the
\* camelCase trackingNumber if it is non-empty, else the tracking number of
\* the first line item, in order, that has one, else null; the line items
\* matter only when both fields are empty.
C25_FallbackOrder ==
    Returned("extract") /\ NonEmptyArr(arg.fulfillments)
                        /\ ~NonEmptyArr(First.tracking_numbers)
        => ret[1] = IF Truthy(First.tracking_number) THEN First.tracking_number
                    ELSE IF Truthy(First.trackingNumber) THEN First.trackingNumber
                    ELSE IF TrackedItems(First) # {}
                        THEN First.line_items.at[Least(TrackedItems(First))].tracking_number
                    ELSE None

\* C25 witness: with an empty list, an empty singular field and a camelCase
\* field, the camelCase value is returned though a line item has a number.
C25_Witness ==
    /\ Returned("extract")
    /\ NonEmptyArr(arg.fulfillments)
    /\ First.tracking_numbers = Arr(<<>>)
    /\ First.tracking_number = Some("")
    /\ First.trackingNumber = Some("C1")
    /\ TrackedItems(First) # {}
    /\ ret[1] = Some("C1")

\* C25 witness: with both fields empty the second line item, the first that
\* has a number, gives the result.
C25_WitnessLineItem ==
    /\ Returned("extract")
    /\ NonEmptyArr(arg.fulfillments)
    /\ First.tracking_numbers.nil
    /\ ~Truthy(First.tracking_number) /\ ~Truthy(First.trackingNumber)
    /\ TrackedItems(First) = {2}
    /\ ret[1] = First.line_items.at[2].tracking_number

\* the fulfillment has a tracking number in none of its four places
Untracked(f) ==
    /\ ~NonEmptyArr(f.tracking_numbers)
    /\ ~Truthy(f.tracking_number)
    /\ ~Truthy(f.trackingNumber)
    /\ TrackedItems(f) = {}

\* C26: the result depends on fulfillments[0] alone: it is what the order
\* with only its first fulfillment gives, whatever fulfillments follow;
\* and when fulfillments[0] has no tracking the result is null even if a
\* later fulfillment has tracking.
C26_FirstFulfillmentWins ==
    Returned("extract") /\ NonEmptyArr(arg.fulfillments)
        => /\ ret[1] = ExtractTracking([arg EXCEPT !.fulfillments = Arr(<<First>>)])
           /\ Untracked(First) => ret[1] = None

\* C26 witness: the first fulfillment has no tracking, a later one has, and
\* the result is null.
C26_Witness ==
    /\ Returned("extract")
    /\ NonEmptyArr(arg.fulfillments)
    /\ Untracked(First)
    /\ \E i \in 2..Len(arg.fulfillments.at) : ~Untracked(arg.fulfillments.at[i])
    /\ ret[1] = None

(***************************************************************************)
(* Claims about the upstream query (SpecQuery).                            *)
(***************************************************************************)
StartsWithMarker(text) == Len(text) > 0 /\ text[1] = "#"

\* C27: the query has exactly one of the selectors name and email.  With an
\* order number present the selector is name, its value the order number,
\* prefixed with '#' only if it does not already start with '#', whatever
\* the email; the selector is email only when the order number is absent.
C27_QuerySelector ==
    Returned("getOrder") =>
        /\ ret[1] # None => ret[1][1].param \in {"name", "email"}
        /\ TruthyStr(arg.orderNumber) =>
               /\ ret[1] # None
               /\ ret[1][1].param = "name"
               /\ ret[1][1].value = IF StartsWithMarker(arg.orderNumber[1])
                                        THEN arg.orderNumber[1]
                                        ELSE <<"#">> \o arg.orderNumber[1]
        /\ ret[1] # None /\ ret[1][1].param = "email" =>
               /\ ~TruthyStr(arg.orderNumber)
               /\ ret[1][1].value = arg.email[1]

\* C27 witness: with an email and an order number that starts with '#', the
\* selector is name and the order number is taken as it is.
C27_Witness ==
    /\ Returned("getOrder")
    /\ TruthyStr(arg.email)
    /\ TruthyStr(arg.orderNumber)
    /\ StartsWithMarker(arg.orderNumber[1])
    /\ ret[1] = Some([param |-> "name", value |-> arg.orderNumber[1]])

\* C27 witness: with an email and an order number without the marker, the
\* selector is name and the value is the order number after one '#'.
C27_WitnessPrefixed ==
    /\ Returned("getOrder")
    /\ TruthyStr(arg.email)
    /\ TruthyStr(arg.orderNumber)
    /\ ~StartsWithMarker(arg.orderNumber[1])
    /\ ret[1] = Some([param |-> "name", value |-> <<"#">> \o arg.orderNumber[1]])

(***************************************************************************)
(* Claims about the order number of the success result (SpecResult).       *)
(***************************************************************************)
ResultOrderNumber == ret[1].body.data.orderNumber

\* C28: the orderNumber of the success result is the display name with its
\* leading '#' removed and nothing else changed: it never starts with '#',
\* and a '#' that is not the leading character is kept.
C28_LeadingMarkerRemoved ==
    Returned("result") =>
        /\ ResultOrderNumber = IF StartsWithMarker(arg.order.name)
                                   THEN Tail(arg.order.name)
                                   ELSE arg.order.name
        /\ ~StartsWithMarker(ResultOrderNumber)

\* C28, what the code gives: a display name that starts with '#' loses that
\* character and nothing else, and a name without '#' is unchanged.
C28_FirstMarkerRemoved ==
    Returned("result") =>
        /\ StartsWithMarker(arg.order.name) => ResultOrderNumber = Tail(arg.order.name)
        /\ (\A i \in 1..Len(arg.order.name) : arg.order.name[i] # "#")
               => ResultOrderNumber = arg.order.name

\* C28 witness: the display name has its only '#' after the first character
\* and the result has been built.
C28_Witness ==
    /\ Returned("result")
    /\ arg.order.name = <<"A", "#", "1">>
    /\ ResultOrderNumber = <<"A", "1">>

====
